---------------------------- MODULE Spec2Model ----------------------------
(***************************************************************************)
(* A model of scrape_stocks.py: one run of main() against a spreadsheet    *)
(* store (base sheet + weekly sheet), a browser session and the page       *)
(* driver.  Text is a sequence of one-character strings, so that strip,    *)
(* replace, the regular expression and float() are computed, not assumed.  *)
(***************************************************************************)
EXTENDS Integers, Sequences, FiniteSets, TLC

(***************************************************************************)
(* Bounds of the model.                                                     *)
(***************************************************************************)
\* number of data rows of a populated sheet
NumRows == 2
\* number of entries of metric_locators that the model keeps (a prefix)
NumMetrics == 2

(***************************************************************************)
(* Program constants.                                                       *)
(***************************************************************************)
\* scrape_with_retry(page, search_text, retry=3)
retry == 3
\* DELAY_BETWEEN_STOCKS, in seconds
DELAY_BETWEEN_STOCKS == 10

\* the keys of metric_locators, in insertion order
metric_names ==
  << "ROCE", "Intrinsic Value", "ROE", "Debt to Equity", "PEG", "Dividend Yield",
     "Current Price", "High", "Low", "Profit Var 10Yrs", "Sales Var 10Yrs" >>

\* the catalog the model iterates over: the first NumMetrics keys
metric_locators == SubSeq(metric_names, 1, NumMetrics)

MetricSet == { metric_locators[i] : i \in 1..Len(metric_locators) }

\* the three columns load_weekly_dataframe requires besides the metrics
base_columns == << "Stock Name", "Symbol", "Quantity" >>

(***************************************************************************)
(* Text: sequences of characters.                                           *)
(***************************************************************************)
\* the rupee sign, one character of the text
RUPEE == "Rs"

Digits == << "0", "1", "2", "3", "4", "5", "6", "7", "8", "9" >>

IsDigit(c) == \E d \in 1..10 : Digits[d] = c

DigitVal(c) == (CHOOSE d \in 1..10 : Digits[d] = c) - 1

IsSpace(c) == c = " "

\* str.replace(c, ""): every occurrence of the character is removed
RECURSIVE Remove(_, _)
Remove(s, c) ==
  IF s = << >> THEN << >>
  ELSE IF Head(s) = c THEN Remove(Tail(s), c)
       ELSE << Head(s) >> \o Remove(Tail(s), c)

RECURSIVE LStrip(_)
LStrip(s) ==
  IF s = << >> THEN << >>
  ELSE IF IsSpace(Head(s)) THEN LStrip(Tail(s)) ELSE s

RECURSIVE RStrip(_)
RStrip(s) ==
  IF s = << >> THEN << >>
  ELSE IF IsSpace(s[Len(s)]) THEN RStrip(SubSeq(s, 1, Len(s) - 1)) ELSE s

\* str.strip()
Strip(s) == RStrip(LStrip(s))

\* c in s
Contains(s, c) == \E i \in 1..Len(s) : s[i] = c

(***************************************************************************)
(* Cell values: text, a float, or None.  One record shape for all three,   *)
(* so that any two cells can be compared.                                  *)
(***************************************************************************)
Str(s) == [k |-> "str", s |-> s, m |-> 0, e |-> 0]

None == [k |-> "none", s |-> << >>, m |-> 0, e |-> 0]

\* the empty string ""
Empty == Str(<< >>)

\* a float m / 10^e, kept in lowest terms: 12.30 and 12.3 are one value
RECURSIVE Num(_, _)
Num(m, e) ==
  IF e > 0 /\ m % 10 = 0 THEN Num(m \div 10, e - 1)
  ELSE [k |-> "num", s |-> << >>, m |-> m, e |-> e]

IsNum(v) == v.k = "num"

\* the value of a run of digits
RECURSIVE DigitsVal(_)
DigitsVal(s) ==
  IF s = << >> THEN 0
  ELSE 10 * DigitsVal(SubSeq(s, 1, Len(s) - 1)) + DigitVal(s[Len(s)])

AllDigits(s) == \A i \in 1..Len(s) : IsDigit(s[i])

\* the length of the longest run of digits of s that starts at position i
RECURSIVE DigitRun(_, _)
DigitRun(s, i) ==
  IF i <= Len(s) /\ IsDigit(s[i]) THEN 1 + DigitRun(s, i + 1) ELSE 0

\* float() accepts, over the characters of the model: surrounding blanks,
\* an optional "-", then digits with an optional "." and digits, or "."
\* followed by digits
FloatBody(s) == IF s # << >> /\ Head(s) = "-" THEN Tail(s) ELSE s

FloatOk(s0) ==
  LET s  == FloatBody(Strip(s0))
      n  == DigitRun(s, 1)
      r  == SubSeq(s, n + 1, Len(s))
  IN  \/ n > 0 /\ r = << >>
      \/ n > 0 /\ Head(r) = "." /\ AllDigits(Tail(r))
      \/ n = 0 /\ r # << >> /\ Head(r) = "." /\ Len(r) > 1 /\ AllDigits(Tail(r))

\* float(s) for a text float() accepts
FloatVal(s0) ==
  LET t    == Strip(s0)
      neg  == t # << >> /\ Head(t) = "-"
      s    == FloatBody(t)
      n    == DigitRun(s, 1)
      int  == SubSeq(s, 1, n)
      frac == IF n < Len(s) THEN SubSeq(s, n + 2, Len(s)) ELSE << >>
      mag  == DigitsVal(int \o frac)
  IN  Num(IF neg THEN 0 - mag ELSE mag, Len(frac))

\* re.search(r"-?\d+\.?\d*", s): where the leftmost match starts (0: no match)
MatchStart(s) ==
  LET starts == { i \in 1..Len(s) :
                    \/ IsDigit(s[i])
                    \/ s[i] = "-" /\ i < Len(s) /\ IsDigit(s[i + 1]) }
  IN  IF starts = {} THEN 0 ELSE CHOOSE i \in starts : \A j \in starts : i <= j

\* match.group(): the greedy match from MatchStart
MatchGroup(s) ==
  LET i  == MatchStart(s)
      d  == IF s[i] = "-" THEN i + 1 ELSE i
      n  == DigitRun(s, d)
      p  == d + n
      dot == p <= Len(s) /\ s[p] = "."
      f  == IF dot THEN DigitRun(s, p + 1) ELSE 0
      last == IF dot THEN p + f ELSE p - 1
  IN  SubSeq(s, i, last)

convert_to_numeric(raw) ==
  IF raw = None \/ raw = Empty THEN None
  ELSE LET value == Strip(Remove(Remove(raw.s, ","), RUPEE))
       IN  IF Contains(value, "%")
           THEN LET v == Strip(Remove(value, "%"))
                IN  IF FloatOk(v) THEN FloatVal(v) ELSE None
           ELSE IF MatchStart(value) = 0 THEN None
                ELSE FloatVal(MatchGroup(value))


(***************************************************************************)
(* Sheets, records and the DataFrame.                                       *)
(***************************************************************************)
Max(a, b) == IF a >= b THEN a ELSE b

\* a worksheet's content: its first row (the column titles) and the rows below
EmptySheet == [header |-> << >>, rows |-> << >>]

\* NumValues that leaves out the header row: len(get_all_records())
NumValuesNoHeader(sheet) == Len(sheet.rows)

\* len(get_all_values())
NumValues(sheet) == IF sheet = EmptySheet THEN 0 ELSE 1 + Len(sheet.rows)

Position(seq, c) == CHOOSE j \in 1..Len(seq) : seq[j] = c

InSeq(seq, c) == \E j \in 1..Len(seq) : seq[j] = c

\* get_all_records(): one mapping per row below the header, keyed by the header
get_all_records(sheet) ==
  [i \in 1..Len(sheet.rows) |->
     [c \in { sheet.header[j] : j \in 1..Len(sheet.header) } |->
        sheet.rows[i][Position(sheet.header, c)]]]

\* pd.DataFrame(records): the columns are the keys of the records, in order
DataFrame(sheet) ==
  IF get_all_records(sheet) = << >> THEN [cols |-> << >>, rows |-> << >>]
  ELSE [cols |-> sheet.header, rows |-> get_all_records(sheet)]

\* df.fillna("")
fillna(d) ==
  [d EXCEPT !.rows = [i \in 1..Len(d.rows) |->
     [c \in DOMAIN d.rows[i] |-> IF d.rows[i][c] = None THEN Empty ELSE d.rows[i][c]]]]

\* EnsureColumn without the test: df[col] = "", whether the column is there
\* or not
EnsureColumnAlways(d, col) ==
  IF InSeq(d.cols, col)
  THEN [d EXCEPT !.rows = [i \in 1..Len(d.rows) |-> [d.rows[i] EXCEPT ![col] = Empty]]]
  ELSE [cols |-> Append(d.cols, col),
        rows |-> [i \in 1..Len(d.rows) |-> d.rows[i] @@ (col :> Empty)]]

\* if col not in df.columns: df[col] = ""
EnsureColumn(d, col) ==
  IF InSeq(d.cols, col) THEN d
  ELSE [cols |-> Append(d.cols, col),
        rows |-> [i \in 1..Len(d.rows) |-> d.rows[i] @@ (col :> Empty)]]

RECURSIVE EnsureColumns(_, _)
EnsureColumns(d, cols) ==
  IF cols = << >> THEN d
  ELSE EnsureColumns(EnsureColumn(d, Head(cols)), Tail(cols))

\* the column completion of load_weekly_dataframe
CompleteColumns(d) ==
  EnsureColumn(EnsureColumns(EnsureColumns(fillna(d), base_columns), metric_locators),
               "LastUpdated")

\* df.loc[index, col] = v
SetCell(d, i, col, v) == [d EXCEPT !.rows[i][col] = v]

RECURSIVE SetCells(_, _, _, _)
SetCells(d, i, cols, v) ==
  IF cols = << >> THEN d
  ELSE SetCells(SetCell(d, i, Head(cols), v), i, Tail(cols), v)

\* GridOf without the last row: df.values.tolist()[:-1]
GridOfDropsLastRow(d) ==
  [header |-> d.cols,
   rows   |-> [i \in 1..(Len(d.rows) - 1) |->
                 [j \in 1..Len(d.cols) |-> d.rows[i][d.cols[j]]]]]

\* [df.columns.tolist()] + df.values.tolist()
GridOf(d) ==
  [header |-> d.cols,
   rows   |-> [i \in 1..Len(d.rows) |-> [j \in 1..Len(d.cols) |-> d.rows[i][d.cols[j]]]]]

\* worksheet.update(grid) from cell A1: the cells of the grid overwrite the
\* cells they cover; a None of the grid leaves its cell as it is
UpdateRow(old, new) ==
  [j \in 1..Max(Len(old), Len(new)) |->
     IF j <= Len(new) /\ new[j] # None THEN new[j]
     ELSE IF j <= Len(old) THEN old[j] ELSE Empty]

UpdateSheet(sheet, grid) ==
  [header |-> [j \in 1..Max(Len(sheet.header), Len(grid.header)) |->
                 IF j <= Len(grid.header) THEN grid.header[j] ELSE sheet.header[j]],
   rows   |-> [i \in 1..Max(Len(sheet.rows), Len(grid.rows)) |->
                 UpdateRow(IF i <= Len(sheet.rows) THEN sheet.rows[i] ELSE << >>,
                           IF i <= Len(grid.rows) THEN grid.rows[i] ELSE << >>)]]

(***************************************************************************)
(* Names, dates and timestamps.                                             *)
(***************************************************************************)
BASE_SHEET_NAME == << "S", "h", "e", "e", "t", "1" >>

SENTINEL ==
  Str(<< "E", "r", "r", "o", "r", " ", "/", " ",
         "U", "n", "a", "v", "a", "i", "l", "a", "b", "l", "e" >>)

\* {n:02d}
Two(n) == << Digits[((n \div 10) % 10) + 1], Digits[(n % 10) + 1] >>

\* f"{year}-W{week_num:02d}"
WeeklyTitle(date) ==
  Two(date.year \div 100) \o Two(date.year) \o << "-", "W" >> \o Two(date.week)

\* the IST offset of get_current_ist_timestamp, in seconds
IST_OFFSET == 19800

\* get_current_ist_timestamp(): the time of day of utcnow() + 5:30 as
\* HH:MM:SS IST (the date part is the same all through a run and left out)
get_current_ist_timestamp(utc_now) ==
  LET ist_now == utc_now + IST_OFFSET
  IN  Str(Two((ist_now \div 3600) % 24) \o << ":" >> \o Two((ist_now \div 60) % 60)
          \o << ":" >> \o Two(ist_now % 60) \o << " ", "I", "S", "T" >>)

(***************************************************************************)
(* The inputs of a run.                                                     *)
(***************************************************************************)
\* the dates a run may be started on: (ISO year, ISO week)
Dates == { [year |-> 2025, week |-> 7] }

\* the symbol of data row i when it has one, and the blank it holds otherwise
\* ("" on odd rows, a lone space on even rows)
SymbolOf(i) == << "S", Digits[(i % 10) + 1] >>

BlankOf(i) == IF i % 2 = 1 THEN << >> ELSE << " " >>

SymbolChoices == [1..NumRows -> BOOLEAN]

SymbolCell(has, i) == Str(IF has[i] THEN SymbolOf(i) ELSE BlankOf(i))

\* the base sheet: Stock Name, Symbol, Quantity and a column of the user's own
BaseHeader == base_columns \o << "Notes" >>

BaseRow(has, i) ==
  << Str(<< "N", Digits[(i % 10) + 1] >>), SymbolCell(has, i), Num(10 * i, 0),
     Str(<< "k", Digits[(i % 10) + 1] >>) >>

BaseSheet(has) ==
  [header |-> BaseHeader, rows |-> [i \in 1..NumRows |-> BaseRow(has, i)]]

\* a weekly sheet an earlier run of the week has written: every column, with
\* that run's values and stamp
OldStamp == Str(<< "0", "1", ":", "0", "0", ":", "0", "0", " ", "I", "S", "T" >>)

PriorSheet(has) ==
  [header |-> BaseHeader \o metric_locators \o << "LastUpdated" >>,
   rows   |-> [i \in 1..NumRows |->
                 BaseRow(has, i) \o [j \in 1..NumMetrics |-> Num(7 * j, 0)]
                   \o << OldStamp >>]]

\* a base sheet of more rows than the floor of a new weekly sheet: the header
\* and 100 rows, none of which has a symbol
LongSheet ==
  [header |-> BaseHeader,
   rows   |-> [i \in 1..100 |->
                 << Str(<< "N", Digits[(i % 10) + 1] >>), Str(BlankOf(i)), Num(10 * i, 0),
                    Str(<< "k", Digits[(i % 10) + 1] >>) >>]]

\* a base sheet of more columns than the floor of a new weekly sheet: seven
\* more columns of the user's own
UserColumns == << "U1", "U2", "U3", "U4", "U5", "U6", "U7" >>

WideSheet(has) ==
  [header |-> BaseHeader \o UserColumns,
   rows   |-> [i \in 1..NumRows |->
                 BaseRow(has, i) \o [j \in 1..Len(UserColumns) |-> Str(<< "u" >>)]]]

\* a base sheet without the Stock Name and Quantity columns
BareSheet(has) ==
  [header |-> << "Symbol", "Notes" >>,
   rows   |-> [i \in 1..NumRows |->
                 << SymbolCell(has, i), Str(<< "k", Digits[(i % 10) + 1] >>) >>]]

\* the spreadsheets a run may find: the base sheet absent, empty or filled; the
\* weekly sheet absent, empty, a copy of the base, or written by an earlier run
SheetOf(kind, has) ==
  IF kind = "base" THEN BaseSheet(has)
  ELSE IF kind = "bare" THEN BareSheet(has)
  ELSE IF kind = "prior" THEN PriorSheet(has)
  ELSE IF kind = "long" THEN LongSheet
  ELSE IF kind = "wide" THEN WideSheet(has) ELSE EmptySheet

StoreOf(date, bk, wk, has) ==
  [t \in (IF bk = "absent" THEN {} ELSE { BASE_SHEET_NAME })
           \cup (IF wk = "absent" THEN {} ELSE { WeeklyTitle(date) }) |->
     IF t = BASE_SHEET_NAME THEN SheetOf(bk, has) ELSE SheetOf(wk, has)]

\* (base sheet, weekly sheet): every pair in which one of the two is missing
\* or empty, the two pairs of an ordinary week, and the first run of a week
\* on a base sheet that is longer or wider than the floors, or lacks columns
StoreKinds ==
  { << "absent", "absent" >>, << "absent", "empty" >>, << "absent", "prior" >>,
    << "empty", "absent" >>, << "empty", "empty" >>,
    << "base", "absent" >>, << "base", "empty" >>, << "base", "base" >>,
    << "base", "prior" >>, << "long", "absent" >>, << "wide", "absent" >>,
    << "bare", "absent" >> }

\* the first row has a symbol, the others have none
FirstOnly == [i \in 1..NumRows |-> i = 1]

\* the set-ups a run starts from: an ordinary spreadsheet with saved cookies
\* and every choice of the rows that have a symbol; every state of the
\* cookies and credentials on an ordinary spreadsheet; and every spreadsheet
\* with credentials and no cookies
Setups ==
  { [date |-> d, creds |-> TRUE, cookies |-> "valid",
     store |-> StoreOf(d, "base", "prior", has)] :
      d \in Dates, has \in SymbolChoices }
  \cup
  { [date |-> d, creds |-> c, cookies |-> k,
     store |-> StoreOf(d, "base", "prior", FirstOnly)] :
      d \in Dates, c \in BOOLEAN, k \in { "absent", "valid", "corrupt" } }
  \cup
  { [date |-> d, creds |-> TRUE, cookies |-> "absent",
     store |-> StoreOf(d, sk[1], sk[2], FirstOnly)] :
      d \in Dates, sk \in StoreKinds }

\* what the result page shows at each locator: inner_text() of the element
TextPool ==
  << << " ", "1", "5", ".", "2", "%", " " >>,
     << "N", "/", "A" >>,
     << "1", ",", "2", "3", "4", ".", "5" >>,
     << >>,
     << RUPEE, "4", "5", "0" >>,
     << "-", "0", ".", "5", "0" >>,
     << "1", "2", "%", " ", "p", "a" >> >>

\* which text of the pool row i shows for metric m
PoolIndex(i, m) == ((NumMetrics * (i - 1) + (m - 1)) % Len(TextPool)) + 1

PageText(i, m) == TextPool[PoolIndex(i, m)]

\* the ways a query of an element can end: a driver fault, the element absent
\* or hidden, or its text
QueryOutcomes == { "fault", "hidden", "text" }

(***************************************************************************)
(* The state of a run.                                                      *)
(***************************************************************************)
VARIABLES
  today,          \* datetime.date.today(), as (ISO year, ISO week)
  credsSet,       \* SCREENER_EMAIL and SCREENER_PASSWORD are both set
  cookiesFile,    \* cookies.json: "absent", "valid" or "corrupt"
  store,          \* the spreadsheet: worksheet title -> content
  clock,          \* utcnow(), in seconds since the run began; only the pacing sleep is
                  \* counted, the waits and the shorter sleeps are below its grain
  pc,             \* where main() is
  exc,            \* the exception that is propagating ("none": none)
  df,             \* the DataFrame
  weekly_title,   \* the title get_weekly_sheet returned (weekly_ws is that sheet)
  cookies_loaded, \* what load_cookies returned
  browserOpen,    \* the browser is launched and not closed
  contextOpen,    \* the browsing context is created and not closed
  index,          \* the row the loop is at
  attempt,        \* scrape_with_retry's loop variable
  metric,         \* the position in metric_locators of the metric loop
  result,         \* what scrape_with_retry returned: "none" (no call has returned), "true", "false"
  navCalls,       \* page.goto calls of the current scrape_with_retry call
  faulted,        \* attempts of the current call that raised
  backoffs,       \* time.sleep(5) calls of the current call
  ops,            \* the driver operations of the current attempt, in order
  lastQuery,      \* how the last get_metric_value of the row ended
  queryFaults,    \* the metrics of the row whose get_metric_value met a driver fault
  outcome,        \* per row: "pending", "skipped", "ok" or "failed"
  processed,      \* the rows that have been paced, in order
  extracted,      \* the (row, metric) pairs get_metric_value was called for
  navigated,      \* scrape_with_retry has navigated at least once
  closeCalls,     \* the close() calls made, in order
  created,        \* the (rows, cols) add_worksheet was called with, else (0, 0)
  weekly_calls,   \* the get_weekly_sheet calls of the runs so far, in order: the
                  \* date, the title returned (none when it raised), whether
                  \* add_worksheet was called
  sinkCalls,      \* the calls made on weekly_ws, in order
  written,        \* the grid of the last update call of the flush
  store0,         \* the spreadsheet as the run found it
  sheet0,         \* the weekly sheet's content when the DataFrame was loaded
  df0             \* the DataFrame as load_weekly_dataframe returned it

envVars == << today, credsSet >>

callVars == << attempt, result, navCalls, faulted, backoffs, ops >>

queryVars == << lastQuery, queryFaults >>

rowVars == << index, metric, queryVars, outcome, processed, extracted, navigated >>

sessionVars == << browserOpen, contextOpen, closeCalls >>

loadVars == << weekly_title, created, weekly_calls, store0, sheet0, df0 >>

sinkVars == << store, sinkCalls, written >>

vars == << envVars, cookiesFile, clock, pc, exc, df, cookies_loaded, callVars, rowVars,
           sessionVars, loadVars, sinkVars >>

NoFrame == [cols |-> << >>, rows |-> << >>]

Init ==
  /\ \E setup \in Setups :
       /\ today = setup.date
       /\ credsSet = setup.creds
       /\ cookiesFile = setup.cookies
       /\ store = setup.store
  /\ store0 = store
  /\ clock = 0
  /\ pc = "get_weekly_sheet"
  /\ exc = "none"
  /\ df = NoFrame
  /\ df0 = NoFrame
  /\ sheet0 = EmptySheet
  /\ weekly_title = << >>
  /\ cookies_loaded = FALSE
  /\ browserOpen = FALSE
  /\ contextOpen = FALSE
  /\ index = 0
  /\ attempt = 0
  /\ metric = 0
  /\ result = "none"
  /\ navCalls = 0
  /\ faulted = 0
  /\ backoffs = 0
  /\ ops = << >>
  /\ lastQuery = "none"
  /\ queryFaults = {}
  /\ outcome = << >>
  /\ processed = << >>
  /\ extracted = {}
  /\ navigated = FALSE
  /\ closeCalls = << >>
  /\ created = << 0, 0 >>
  /\ weekly_calls = << >>
  /\ sinkCalls = << >>
  /\ written = EmptySheet

(***************************************************************************)
(* get_weekly_sheet and load_weekly_dataframe.                              *)
(***************************************************************************)
\* the floor of the rows of a new weekly sheet
MIN_ROWS == 100
\* the floor of the columns of a new weekly sheet
MIN_COLS == 10

\* GetWeeklySheet that looks the sheet up under the title without the padding
\* of the week, f"{year}-W{week_num}", and creates it under the padded title
GetWeeklySheetUnpadded ==
  /\ pc = "get_weekly_sheet"
  /\ LET title == WeeklyTitle(today)
         sought == IF today.week < 10
                   THEN SubSeq(title, 1, 6) \o << title[8] >> ELSE title
     IN  IF sought \in DOMAIN store
         THEN /\ weekly_title' = title
              /\ pc' = "load"
              /\ weekly_calls' = Append(weekly_calls,
                   [date |-> today, title |-> title, created |-> FALSE])
              /\ UNCHANGED << exc, created, sinkVars >>
         ELSE IF BASE_SHEET_NAME \notin DOMAIN store
         THEN /\ exc' = "WorksheetNotFound"
              /\ pc' = "aborted"
              /\ weekly_calls' = Append(weekly_calls,
                   [date |-> today, title |-> << >>, created |-> FALSE])
              /\ UNCHANGED << weekly_title, created, sinkVars >>
         ELSE LET all_values == store[BASE_SHEET_NAME]
                  rows == Max(NumValues(all_values), MIN_ROWS)
                  cols == Max(IF all_values # EmptySheet
                              THEN Len(all_values.header) ELSE MIN_COLS, MIN_COLS)
              IN  /\ created' = << rows, cols >>
                  /\ store' = (title :> IF all_values # EmptySheet
                                        THEN UpdateSheet(EmptySheet, all_values)
                                        ELSE EmptySheet) @@ store
                  /\ sinkCalls' = IF all_values # EmptySheet
                                  THEN Append(sinkCalls, "update") ELSE sinkCalls
                  /\ weekly_title' = title
                  /\ pc' = "load"
                  /\ weekly_calls' = Append(weekly_calls,
                       [date |-> today, title |-> title, created |-> TRUE])
                  /\ UNCHANGED << exc, written >>
  /\ UNCHANGED << envVars, cookiesFile, clock, df, cookies_loaded, callVars, rowVars,
                  sessionVars, store0, sheet0, df0 >>

\* get_weekly_sheet: the weekly sheet is found, or created from the base sheet
GetWeeklySheet ==
  /\ pc = "get_weekly_sheet"
  /\ LET title == WeeklyTitle(today)
     IN  IF title \in DOMAIN store
         THEN /\ weekly_title' = title
              /\ pc' = "load"
              /\ weekly_calls' = Append(weekly_calls,
                   [date |-> today, title |-> title, created |-> FALSE])
              /\ UNCHANGED << exc, created, sinkVars >>
         ELSE IF BASE_SHEET_NAME \notin DOMAIN store
         THEN /\ exc' = "WorksheetNotFound"
              /\ pc' = "aborted"
              /\ weekly_calls' = Append(weekly_calls,
                   [date |-> today, title |-> << >>, created |-> FALSE])
              /\ UNCHANGED << weekly_title, created, sinkVars >>
         ELSE LET all_values == store[BASE_SHEET_NAME]
                  rows == Max(NumValues(all_values), MIN_ROWS)
                  cols == Max(IF all_values # EmptySheet
                              THEN Len(all_values.header) ELSE MIN_COLS, MIN_COLS)
              IN  /\ created' = << rows, cols >>
                  /\ store' = store @@
                       (title :> IF all_values # EmptySheet
                                 THEN UpdateSheet(EmptySheet, all_values)
                                 ELSE EmptySheet)
                  /\ sinkCalls' = IF all_values # EmptySheet
                                  THEN Append(sinkCalls, "update") ELSE sinkCalls
                  /\ weekly_title' = title
                  /\ pc' = "load"
                  /\ weekly_calls' = Append(weekly_calls,
                       [date |-> today, title |-> title, created |-> TRUE])
                  /\ UNCHANGED << exc, written >>
  /\ UNCHANGED << envVars, cookiesFile, clock, df, cookies_loaded, callVars, rowVars,
                  sessionVars, store0, sheet0, df0 >>

\* the rest of load_weekly_dataframe: the records of the weekly sheet, or of
\* the base sheet when it has none, with the missing columns added
LoadWeeklyDataframe ==
  /\ pc = "load"
  /\ LET weekly == store[weekly_title]
     IN  IF get_all_records(weekly) # << >>
         THEN /\ df' = CompleteColumns(DataFrame(weekly))
              /\ pc' = "launch"
              /\ exc' = exc
         ELSE IF BASE_SHEET_NAME \notin DOMAIN store
         THEN /\ exc' = "WorksheetNotFound"
              /\ pc' = "aborted"
              /\ df' = df
         ELSE /\ df' = CompleteColumns(DataFrame(store[BASE_SHEET_NAME]))
              /\ pc' = "launch"
              /\ exc' = exc
  /\ df0' = df'
  /\ sheet0' = store[weekly_title]
  /\ outcome' = [i \in 1..Len(df'.rows) |-> "pending"]
  /\ UNCHANGED << envVars, cookiesFile, clock, cookies_loaded, callVars, index, metric,
                  queryVars, processed, extracted, navigated, sessionVars, weekly_title,
                  created, weekly_calls, store0, sinkVars >>

(***************************************************************************)
(* The browser session and the login.                                       *)
(***************************************************************************)
\* p.chromium.launch, browser.new_context, context.new_page
Launch ==
  /\ pc = "launch"
  /\ browserOpen' = TRUE
  /\ contextOpen' = TRUE
  /\ pc' = "load_cookies"
  /\ UNCHANGED << envVars, cookiesFile, clock, exc, df, cookies_loaded, callVars, rowVars,
                  closeCalls, loadVars, sinkVars >>

\* load_cookies: True only when cookies.json exists and loads
LoadCookies ==
  /\ pc = "load_cookies"
  /\ cookies_loaded' = (cookiesFile = "valid")
  /\ pc' = "login"
  /\ UNCHANGED << envVars, cookiesFile, clock, exc, df, callVars, rowVars, sessionVars,
                  loadVars, sinkVars >>

\* if not cookies_loaded: false, the login is skipped and the loop starts
SkipLogin ==
  /\ pc = "login"
  /\ cookies_loaded
  /\ pc' = "row"
  /\ index' = 1
  /\ UNCHANGED << envVars, cookiesFile, clock, exc, df, cookies_loaded, callVars, metric,
                  queryVars, outcome, processed, extracted, navigated, sessionVars,
                  loadVars, sinkVars >>

\* PerformLogin without the check of the credentials
PerformLoginNoCredsCheck ==
  /\ pc = "login"
  /\ ~cookies_loaded
  /\ \/ /\ exc' = "login"
        /\ pc' = "context_close"
        /\ UNCHANGED << cookiesFile, index >>
     \/ /\ cookiesFile' = "valid"
        /\ pc' = "row"
        /\ index' = 1
        /\ exc' = exc
  /\ UNCHANGED << envVars, clock, df, cookies_loaded, callVars, metric, queryVars,
                  outcome, processed, extracted, navigated, sessionVars, loadVars,
                  sinkVars >>

\* perform_login raises without credentials, or when the driver faults; else
\* save_cookies writes cookies.json (its failure is caught and only reported,
\* and the run does not read the file again)
PerformLogin ==
  /\ pc = "login"
  /\ ~cookies_loaded
  /\ IF ~credsSet
     THEN /\ exc' = "RuntimeError"
          /\ pc' = "context_close"
          /\ UNCHANGED << cookiesFile, index >>
     ELSE \/ /\ exc' = "login"
             /\ pc' = "context_close"
             /\ UNCHANGED << cookiesFile, index >>
          \/ /\ cookiesFile' = "valid"
             /\ pc' = "row"
             /\ index' = 1
             /\ exc' = exc
  /\ UNCHANGED << envVars, clock, df, cookies_loaded, callVars, metric, queryVars,
                  outcome, processed, extracted, navigated, sessionVars, loadVars,
                  sinkVars >>

(***************************************************************************)
(* The row loop.                                                            *)
(***************************************************************************)
\* str(row["Symbol"]).strip()
SymbolAt(d, i) == Strip(d.rows[i]["Symbol"].s)

\* the loop is over: the try block ends without an exception
LoopEnd ==
  /\ pc = "row"
  /\ index > Len(df.rows)
  /\ pc' = "context_close"
  /\ UNCHANGED << envVars, cookiesFile, clock, exc, df, cookies_loaded, callVars, rowVars,
                  sessionVars, loadVars, sinkVars >>

\* SkipRow that blanks the row it skips: its metric columns and LastUpdated
\* are set to "" before the continue
SkipRowBlanks ==
  /\ pc = "row"
  /\ index <= Len(df.rows)
  /\ SymbolAt(df, index) = << >>
  /\ df' = SetCell(SetCells(df, index, metric_locators, Empty), index, "LastUpdated", Empty)
  /\ outcome' = [outcome EXCEPT ![index] = "skipped"]
  /\ index' = index + 1
  /\ UNCHANGED << envVars, cookiesFile, clock, pc, exc, cookies_loaded, callVars,
                  metric, queryVars, processed, extracted, navigated, sessionVars,
                  loadVars, sinkVars >>

\* if not symbol: continue
SkipRow ==
  /\ pc = "row"
  /\ index <= Len(df.rows)
  /\ SymbolAt(df, index) = << >>
  /\ outcome' = [outcome EXCEPT ![index] = "skipped"]
  /\ index' = index + 1
  /\ UNCHANGED << envVars, cookiesFile, clock, pc, exc, df, cookies_loaded, callVars,
                  metric, queryVars, processed, extracted, navigated, sessionVars,
                  loadVars, sinkVars >>

\* scrape_with_retry(page, symbol) is called: attempt 1 begins
StartRow ==
  /\ pc = "row"
  /\ index <= Len(df.rows)
  /\ SymbolAt(df, index) # << >>
  /\ pc' = "goto"
  /\ attempt' = 1
  /\ result' = "none"
  /\ navCalls' = 0
  /\ faulted' = 0
  /\ backoffs' = 0
  /\ ops' = << >>
  /\ UNCHANGED << envVars, cookiesFile, clock, exc, df, cookies_loaded, rowVars,
                  sessionVars, loadVars, sinkVars >>

(***************************************************************************)
(* scrape_with_retry.                                                       *)
(***************************************************************************)
\* AttemptFault with the loop one round too long: range(1, retry + 2)
AttemptFaultOffByOne(trace) ==
  /\ ops' = trace
  /\ faulted' = faulted + 1
  /\ exc' = exc
  /\ IF attempt <= retry
     THEN /\ backoffs' = backoffs + 1
          /\ attempt' = attempt + 1
          /\ pc' = "goto"
          /\ result' = result
     ELSE /\ result' = "false"
          /\ pc' = "mark"
          /\ UNCHANGED << backoffs, attempt >>

\* AttemptFault with the last attempt's exception raised again, not swallowed
AttemptFaultReraise(trace) ==
  /\ ops' = trace
  /\ faulted' = faulted + 1
  /\ IF attempt < retry
     THEN /\ backoffs' = backoffs + 1
          /\ attempt' = attempt + 1
          /\ pc' = "goto"
          /\ UNCHANGED << result, exc >>
     ELSE /\ exc' = "TimeoutError"
          /\ pc' = "context_close"
          /\ UNCHANGED << result, backoffs, attempt >>

\* AttemptFault whose next attempt takes up the step that raised, not the
\* navigation: the try block around the single steps, not around the attempt
AttemptFaultResume(trace) ==
  /\ ops' = trace
  /\ faulted' = faulted + 1
  /\ exc' = exc
  /\ IF attempt < retry
     THEN /\ backoffs' = backoffs + 1
          /\ attempt' = attempt + 1
          /\ pc' = pc
          /\ result' = result
     ELSE /\ result' = "false"
          /\ pc' = "mark"
          /\ UNCHANGED << backoffs, attempt >>

\* the except clause: the attempt is over; sleep 5 s and go round again while
\* attempt < retry, else fall out of the loop and return False
AttemptFault(trace) ==
  /\ ops' = trace
  /\ faulted' = faulted + 1
  /\ exc' = exc
  /\ IF attempt < retry
     THEN /\ backoffs' = backoffs + 1
          /\ attempt' = attempt + 1
          /\ pc' = "goto"
          /\ result' = result
     ELSE /\ result' = "false"
          /\ pc' = "mark"
          /\ UNCHANGED << backoffs, attempt >>

\* a step of the attempt that went through
AttemptStep(trace, next) ==
  /\ ops' = trace
  /\ pc' = next
  /\ UNCHANGED << exc, attempt, result, faulted, backoffs >>

scrapeFrame ==
  << envVars, cookiesFile, clock, df, cookies_loaded, index, metric, queryVars,
     outcome, processed, extracted, sessionVars, loadVars, sinkVars >>

\* page.goto("https://www.screener.in/", timeout=60000)
Goto ==
  /\ pc = "goto"
  /\ navCalls' = navCalls + 1
  /\ navigated' = TRUE
  /\ \/ AttemptStep(<< "goto" >>, "wait_search")
     \/ AttemptFault(<< "goto" >>)
  /\ UNCHANGED scrapeFrame

\* WaitSearch of the earlier scrape_with_retry, which filled the search box
\* right after the wait, without time.sleep(1)
WaitSearchNoSettle ==
  /\ pc = "wait_search"
  /\ \/ AttemptStep(Append(ops, "wait_search"), "fill")
     \/ AttemptFault(Append(ops, "wait_search"))
  /\ UNCHANGED << scrapeFrame, navCalls, navigated >>

\* page.wait_for_selector('#desktop-search input', timeout=10000)
WaitSearch ==
  /\ pc = "wait_search"
  /\ \/ AttemptStep(Append(ops, "wait_search"), "settle1")
     \/ AttemptFault(Append(ops, "wait_search"))
  /\ UNCHANGED << scrapeFrame, navCalls, navigated >>

\* time.sleep(1)
Settle1 ==
  /\ pc = "settle1"
  /\ AttemptStep(Append(ops, "sleep1"), "fill")
  /\ UNCHANGED << scrapeFrame, navCalls, navigated >>

\* page.fill('#desktop-search input', search_text)
Fill ==
  /\ pc = "fill"
  /\ \/ AttemptStep(Append(ops, "fill"), "settle2")
     \/ AttemptFault(Append(ops, "fill"))
  /\ UNCHANGED << scrapeFrame, navCalls, navigated >>

\* time.sleep(2)
Settle2 ==
  /\ pc = "settle2"
  /\ AttemptStep(Append(ops, "sleep2"), "press")
  /\ UNCHANGED << scrapeFrame, navCalls, navigated >>

\* page.keyboard.press("Enter")
PressEnter ==
  /\ pc = "press"
  /\ \/ AttemptStep(Append(ops, "press"), "wait_result")
     \/ AttemptFault(Append(ops, "press"))
  /\ UNCHANGED << scrapeFrame, navCalls, navigated >>

\* page.wait_for_selector('//*[@id="top"]/div[1]/div/h1', timeout=30000), and
\* return True
WaitResult ==
  /\ pc = "wait_result"
  /\ \/ /\ ops' = Append(ops, "wait_result")
        /\ result' = "true"
        /\ pc' = "extract"
        /\ metric' = 1
        /\ UNCHANGED << exc, attempt, faulted, backoffs >>
     \/ /\ AttemptFault(Append(ops, "wait_result"))
        /\ metric' = metric
  /\ UNCHANGED << envVars, cookiesFile, clock, df, cookies_loaded, index, queryVars,
                  outcome, processed, extracted, sessionVars, loadVars, sinkVars,
                  navCalls, navigated >>

(***************************************************************************)
(* The two branches of the row, and the pacing.                             *)
(***************************************************************************)
\* get_metric_value: the trimmed text of a visible element; None when the
\* element is absent or hidden, and when the driver raises
get_metric_value(out, text) == IF out = "text" THEN Str(Strip(text)) ELSE None

\* numeric_value if numeric_value is not None else raw_value
StoredValue(numeric_value, raw_value) ==
  IF numeric_value # None THEN numeric_value ELSE raw_value

callReset ==
  /\ attempt' = 0
  /\ result' = "none"
  /\ navCalls' = 0
  /\ faulted' = 0
  /\ backoffs' = 0
  /\ ops' = << >>

\* ExtractMetric that assigns only when there is a value: a None leaves the
\* cell as it was
ExtractMetricKeepStale ==
  /\ pc = "extract"
  /\ \E out \in QueryOutcomes :
       LET raw_value == get_metric_value(out, PageText(index, metric))
           numeric_value == convert_to_numeric(raw_value)
       IN  /\ df' = IF StoredValue(numeric_value, raw_value) = None THEN df
                    ELSE SetCell(df, index, metric_locators[metric],
                                 StoredValue(numeric_value, raw_value))
           /\ lastQuery' = out
           /\ queryFaults' = IF out = "fault"
                             THEN queryFaults \cup { metric_locators[metric] }
                             ELSE queryFaults
  /\ extracted' = extracted \cup { << index, metric_locators[metric] >> }
  /\ IF metric < Len(metric_locators)
     THEN metric' = metric + 1 /\ pc' = pc
     ELSE metric' = metric /\ pc' = "stamp"
  /\ UNCHANGED << envVars, cookiesFile, clock, exc, cookies_loaded, callVars, index,
                  outcome, processed, navigated, sessionVars, loadVars, sinkVars >>

\* ExtractMetric with the try block around the loop, not in get_metric_value:
\* a driver fault ends the loop over the metrics
ExtractMetricFaultBreaks ==
  /\ pc = "extract"
  /\ \E out \in QueryOutcomes :
       LET raw_value == get_metric_value(out, PageText(index, metric))
           numeric_value == convert_to_numeric(raw_value)
       IN  /\ df' = SetCell(df, index, metric_locators[metric],
                            StoredValue(numeric_value, raw_value))
           /\ lastQuery' = out
           /\ queryFaults' = IF out = "fault"
                             THEN queryFaults \cup { metric_locators[metric] }
                             ELSE queryFaults
           /\ IF metric < Len(metric_locators) /\ out # "fault"
              THEN metric' = metric + 1 /\ pc' = pc
              ELSE metric' = metric /\ pc' = "stamp"
  /\ extracted' = extracted \cup { << index, metric_locators[metric] >> }
  /\ UNCHANGED << envVars, cookiesFile, clock, exc, cookies_loaded, callVars, index,
                  outcome, processed, navigated, sessionVars, loadVars, sinkVars >>

\* one round of the loop over metric_locators.items()
ExtractMetric ==
  /\ pc = "extract"
  /\ \E out \in QueryOutcomes :
       LET raw_value == get_metric_value(out, PageText(index, metric))
           numeric_value == convert_to_numeric(raw_value)
       IN  /\ df' = SetCell(df, index, metric_locators[metric],
                            StoredValue(numeric_value, raw_value))
           /\ lastQuery' = out
           /\ queryFaults' = IF out = "fault"
                             THEN queryFaults \cup { metric_locators[metric] }
                             ELSE queryFaults
  /\ extracted' = extracted \cup { << index, metric_locators[metric] >> }
  /\ IF metric < Len(metric_locators)
     THEN metric' = metric + 1 /\ pc' = pc
     ELSE metric' = metric /\ pc' = "stamp"
  /\ UNCHANGED << envVars, cookiesFile, clock, exc, cookies_loaded, callVars, index,
                  outcome, processed, navigated, sessionVars, loadVars, sinkVars >>

\* StampRow that stamps the whole column: df["LastUpdated"] = ...
StampRowAllRows ==
  /\ pc = "stamp"
  /\ df' = [df EXCEPT !.rows = [i \in 1..Len(df.rows) |->
              [df.rows[i] EXCEPT !["LastUpdated"] = get_current_ist_timestamp(clock)]]]
  /\ outcome' = [outcome EXCEPT ![index] = "ok"]
  /\ lastQuery' = "none"
  /\ queryFaults' = {}
  /\ callReset
  /\ pc' = "pace"
  /\ UNCHANGED << envVars, cookiesFile, clock, exc, cookies_loaded, index, metric,
                  processed, extracted, navigated, sessionVars, loadVars, sinkVars >>

\* df.loc[index, "LastUpdated"] = get_current_ist_timestamp(), after the metrics
StampRow ==
  /\ pc = "stamp"
  /\ df' = SetCell(df, index, "LastUpdated", get_current_ist_timestamp(clock))
  /\ outcome' = [outcome EXCEPT ![index] = "ok"]
  /\ lastQuery' = "none"
  /\ queryFaults' = {}
  /\ callReset
  /\ pc' = "pace"
  /\ UNCHANGED << envVars, cookiesFile, clock, exc, cookies_loaded, index, metric,
                  processed, extracted, navigated, sessionVars, loadVars, sinkVars >>

\* MarkUnavailable without the stamp
MarkUnavailableNoStamp ==
  /\ pc = "mark"
  /\ df' = SetCells(df, index, metric_locators, SENTINEL)
  /\ outcome' = [outcome EXCEPT ![index] = "failed"]
  /\ callReset
  /\ pc' = "pace"
  /\ UNCHANGED << envVars, cookiesFile, clock, exc, cookies_loaded, index, metric,
                  queryVars, processed, extracted, navigated, sessionVars, loadVars,
                  sinkVars >>

\* MarkUnavailable that leaves the loop over the metrics after its first round
MarkUnavailableFirstOnly ==
  /\ pc = "mark"
  /\ df' = SetCell(SetCell(df, index, metric_locators[1], SENTINEL), index, "LastUpdated",
                   get_current_ist_timestamp(clock))
  /\ outcome' = [outcome EXCEPT ![index] = "failed"]
  /\ callReset
  /\ pc' = "pace"
  /\ UNCHANGED << envVars, cookiesFile, clock, exc, cookies_loaded, index, metric,
                  queryVars, processed, extracted, navigated, sessionVars, loadVars,
                  sinkVars >>

\* MarkUnavailable of a loop that does not give a row up: when
\* scrape_with_retry returns False the row is taken up again
MarkUnavailableRetriesRow ==
  /\ pc = "mark"
  /\ callReset
  /\ pc' = "row"
  /\ UNCHANGED << envVars, cookiesFile, clock, exc, df, cookies_loaded, index, metric,
                  queryVars, outcome, processed, extracted, navigated, sessionVars,
                  loadVars, sinkVars >>

\* MarkUnavailable of a loop whose pacing sleep is in the if branch only: the
\* next row follows at once
MarkUnavailableNoPace ==
  /\ pc = "mark"
  /\ df' = SetCell(SetCells(df, index, metric_locators, SENTINEL), index, "LastUpdated",
                   get_current_ist_timestamp(clock))
  /\ outcome' = [outcome EXCEPT ![index] = "failed"]
  /\ callReset
  /\ index' = index + 1
  /\ pc' = "row"
  /\ UNCHANGED << envVars, cookiesFile, clock, exc, cookies_loaded, metric,
                  queryVars, processed, extracted, navigated, sessionVars, loadVars,
                  sinkVars >>

\* the else branch: every metric becomes "Error / Unavailable", and the stamp
MarkUnavailable ==
  /\ pc = "mark"
  /\ df' = SetCell(SetCells(df, index, metric_locators, SENTINEL), index, "LastUpdated",
                   get_current_ist_timestamp(clock))
  /\ outcome' = [outcome EXCEPT ![index] = "failed"]
  /\ callReset
  /\ pc' = "pace"
  /\ UNCHANGED << envVars, cookiesFile, clock, exc, cookies_loaded, index, metric,
                  queryVars, processed, extracted, navigated, sessionVars, loadVars,
                  sinkVars >>

\* time.sleep(DELAY_BETWEEN_STOCKS), and on to the next row
Pace ==
  /\ pc = "pace"
  /\ clock' = clock + DELAY_BETWEEN_STOCKS
  /\ processed' = Append(processed, index)
  /\ index' = index + 1
  /\ pc' = "row"
  /\ UNCHANGED << envVars, cookiesFile, exc, df, cookies_loaded, callVars, metric,
                  queryVars, outcome, extracted, navigated, sessionVars, loadVars,
                  sinkVars >>

\* Interrupt with the close calls after the loop and no finally clause: the
\* exception passes them by
InterruptNoFinally ==
  /\ pc = "pace"
  /\ exc' = "KeyboardInterrupt"
  /\ pc' = "playwright_stop"
  /\ UNCHANGED << envVars, cookiesFile, clock, df, cookies_loaded, callVars, rowVars,
                  sessionVars, loadVars, sinkVars >>

\* the process is interrupted during the pacing sleep: KeyboardInterrupt is
\* no Exception, nothing in the loop catches it
Interrupt ==
  /\ pc = "pace"
  /\ exc' = "KeyboardInterrupt"
  /\ pc' = "context_close"
  /\ UNCHANGED << envVars, cookiesFile, clock, df, cookies_loaded, callVars, rowVars,
                  sessionVars, loadVars, sinkVars >>

(***************************************************************************)
(* The finally clause, the end of the with block, and the flush.            *)
(***************************************************************************)
closeFrame ==
  << envVars, cookiesFile, clock, df, cookies_loaded, callVars, rowVars, loadVars,
     sinkVars >>

\* context.close(); when it raises, browser.close() is not reached
ContextClose ==
  /\ pc = "context_close"
  /\ closeCalls' = Append(closeCalls, "context")
  /\ \/ /\ contextOpen' = FALSE
        /\ pc' = "browser_close"
        /\ exc' = exc
     \/ /\ exc' = "close"
        /\ pc' = "playwright_stop"
        /\ contextOpen' = contextOpen
  /\ UNCHANGED << closeFrame, browserOpen >>

\* browser.close()
BrowserClose ==
  /\ pc = "browser_close"
  /\ closeCalls' = Append(closeCalls, "browser")
  /\ \/ /\ browserOpen' = FALSE
        /\ exc' = exc
     \/ /\ exc' = "close"
        /\ browserOpen' = browserOpen
  /\ pc' = "playwright_stop"
  /\ UNCHANGED << closeFrame, contextOpen >>

\* PlaywrightStop of a main() whose flush is in a finally clause of its own:
\* the flush follows whether an exception is propagating or not
PlaywrightStopFlushes ==
  /\ pc = "playwright_stop"
  /\ browserOpen' = FALSE
  /\ contextOpen' = FALSE
  /\ pc' = "clear"
  /\ UNCHANGED << closeFrame, exc, closeCalls >>

\* the with block is left: Playwright stops, and takes down what is still
\* open; a propagating exception ends main() here
PlaywrightStop ==
  /\ pc = "playwright_stop"
  /\ browserOpen' = FALSE
  /\ contextOpen' = FALSE
  /\ pc' = IF exc = "none" THEN "clear" ELSE "aborted"
  /\ UNCHANGED << closeFrame, exc, closeCalls >>

flushFrame ==
  << envVars, cookiesFile, clock, df, cookies_loaded, callVars, rowVars, sessionVars,
     loadVars >>

\* weekly_ws.clear()
Clear ==
  /\ pc = "clear"
  /\ sinkCalls' = Append(sinkCalls, "clear")
  /\ \/ /\ store' = [store EXCEPT ![weekly_title] = EmptySheet]
        /\ pc' = "update"
        /\ exc' = exc
     \/ /\ exc' = "sink"
        /\ pc' = "aborted"
        /\ store' = store
  /\ UNCHANGED << flushFrame, written >>

\* Update whose write, when it faults, has already put down the header row
UpdatePartialOnFault ==
  /\ pc = "update"
  /\ sinkCalls' = Append(sinkCalls, "update")
  /\ written' = GridOf(df)
  /\ \/ /\ store' = [store EXCEPT ![weekly_title] = UpdateSheet(@, GridOf(df))]
        /\ pc' = "done"
        /\ exc' = exc
     \/ /\ exc' = "sink"
        /\ pc' = "aborted"
        /\ store' = [store EXCEPT ![weekly_title] = [header |-> df.cols, rows |-> << >>]]
  /\ UNCHANGED flushFrame

\* weekly_ws.update([df.columns.tolist()] + df.values.tolist())
Update ==
  /\ pc = "update"
  /\ sinkCalls' = Append(sinkCalls, "update")
  /\ written' = GridOf(df)
  /\ \/ /\ store' = [store EXCEPT ![weekly_title] = UpdateSheet(@, GridOf(df))]
        /\ pc' = "done"
        /\ exc' = exc
     \/ /\ exc' = "sink"
        /\ pc' = "aborted"
        /\ store' = store
  /\ UNCHANGED flushFrame

Next ==
  \/ GetWeeklySheet
  \/ LoadWeeklyDataframe
  \/ Launch
  \/ LoadCookies
  \/ SkipLogin
  \/ PerformLogin
  \/ LoopEnd
  \/ SkipRow
  \/ StartRow
  \/ Goto
  \/ WaitSearch
  \/ Settle1
  \/ Fill
  \/ Settle2
  \/ PressEnter
  \/ WaitResult
  \/ ExtractMetric
  \/ StampRow
  \/ MarkUnavailable
  \/ Pace
  \/ Interrupt
  \/ ContextClose
  \/ BrowserClose
  \/ PlaywrightStop
  \/ Clear
  \/ Update

Spec == Init /\ [][Next]_vars

\* main() has a next step exactly when it has not ended: ENABLED <<Next>>_vars
NextEnabled == ~(pc \in { "done", "aborted" })

\* every call main() makes returns: the waits of the driver have timeouts,
\* the sleeps are finite, so main() always takes its next step.  This is
\* weak fairness of Next, []<>~ENABLED <<Next>>_vars \/ []<><<Next>>_vars,
\* with the enabling condition written out
FairSpec == Spec /\ ([]<>~NextEnabled \/ []<><<Next>>_vars)

(***************************************************************************)
(* Several runs, one after the other, on the same spreadsheet.              *)
(***************************************************************************)
\* how many runs are followed
MaxRuns == 2

\* the dates of the runs: the week of the first run, and a later week
RunDates == Dates \cup { [year |-> 2025, week |-> 12] }

NotBefore(d, e) == d.year > e.year \/ (d.year = e.year /\ d.week >= e.week)

\* the script is started again when the run before has ended: the same week
\* or a later one, the spreadsheet and cookies.json as that run left them
NextRun ==
  /\ pc \in { "done", "aborted" }
  /\ Len(weekly_calls) < MaxRuns
  /\ today' \in { d \in RunDates : NotBefore(d, today) }
  /\ store0' = store
  /\ clock' = 0
  /\ pc' = "get_weekly_sheet"
  /\ exc' = "none"
  /\ df' = NoFrame
  /\ df0' = NoFrame
  /\ sheet0' = EmptySheet
  /\ weekly_title' = << >>
  /\ cookies_loaded' = FALSE
  /\ index' = 0
  /\ metric' = 0
  /\ callReset
  /\ lastQuery' = "none"
  /\ queryFaults' = {}
  /\ outcome' = << >>
  /\ processed' = << >>
  /\ extracted' = {}
  /\ navigated' = FALSE
  /\ closeCalls' = << >>
  /\ created' = << 0, 0 >>
  /\ sinkCalls' = << >>
  /\ written' = EmptySheet
  /\ UNCHANGED << credsSet, cookiesFile, store, browserOpen, contextOpen, weekly_calls >>

\* the spreadsheets of the first run: no sheet at all, the base sheet alone
\* (empty or filled), and the base sheet with the weekly sheet of the week
WeekStoreKinds ==
  { << "absent", "absent" >>, << "empty", "absent" >>, << "base", "absent" >>,
    << "base", "prior" >> }

WeekInit ==
  /\ Init
  /\ credsSet
  /\ cookiesFile = "absent"
  /\ store \in { StoreOf(today, sk[1], sk[2], FirstOnly) : sk \in WeekStoreKinds }

WeekNext == Next \/ NextRun

WeekSpec == WeekInit /\ [][WeekNext]_vars

(***************************************************************************)
(* What the claims speak of.                                                *)
(***************************************************************************)
Rows == 1..Len(df.rows)

Metrics == 1..Len(metric_locators)

Cell(i, m) == df.rows[i][metric_locators[m]]

\* the stamps get_current_ist_timestamp can have returned so far in this run
RunStamps == { get_current_ist_timestamp(t) : t \in 0..clock }

AllSentinel(i) == \A m \in Metrics : Cell(i, m) = SENTINEL

NoSentinel(i) == \A m \in Metrics : Cell(i, m) # SENTINEL

\* the run has ended
Ended == pc \in { "done", "aborted" }

\* the page driver is in use for a symbol
DriverPcs ==
  { "goto", "wait_search", "settle1", "fill", "settle2", "press", "wait_result", "extract" }

\* the calls on the sink but for the write that seeds a new weekly sheet
SeedCalls == IF sinkCalls # << >> /\ Head(sinkCalls) = "update" THEN 1 ELSE 0

FlushCalls == SubSeq(sinkCalls, SeedCalls + 1, Len(sinkCalls))

AllRowsHandled ==
  /\ index > Len(df.rows)
  /\ \A i \in Rows : outcome[i] \in { "skipped", "ok", "failed" }

\* the grid is the header and every row of the DataFrame, in its order
WrittenIsDataset ==
  /\ written.header = df.cols
  /\ Len(written.rows) = Len(df0.rows)
  /\ \A i \in Rows : \A j \in 1..Len(df.cols) : written.rows[i][j] = df.rows[i][df.cols[j]]
  /\ \A i \in Rows :
       written.rows[i][Position(df.cols, "Stock Name")] = df0.rows[i]["Stock Name"]

(***************************************************************************)
(* C1: scrape_with_retry returns True right after the first attempt that    *)
(* goes through, having called page.goto once per attempt (the faulted      *)
(* attempts plus one, at most retry) and starting no attempt after it; it   *)
(* returns False only when every one of the retry attempts has faulted,     *)
(* after exactly retry calls of page.goto.                                  *)
(***************************************************************************)
C1_RetryCount ==
  /\ result = "true" =>
       /\ navCalls = faulted + 1
       /\ navCalls <= retry
       /\ attempt = navCalls
       /\ pc \in { "extract", "stamp" }
  /\ result = "false" =>
       /\ faulted = retry
       /\ navCalls = retry
       /\ pc = "mark"

\* the first two attempts faulted and the third went through
C1_Witness == result = "true" /\ faulted = retry - 1 /\ navCalls = retry

(***************************************************************************)
(* C2 as stated: a completed run has made exactly one clear and one write   *)
(* call on the sink, the clear first, both after every row was processed or *)
(* skipped, and the grid written is the header and every row in order.      *)
(***************************************************************************)
C2_Original ==
  pc = "done" =>
    /\ sinkCalls = << "clear", "update" >>
    /\ AllRowsHandled
    /\ WrittenIsDataset

(***************************************************************************)
(* C2 amended: from the moment the dataset is loaded the sink receives      *)
(* exactly one clear and then one write, both after every row was processed *)
(* or skipped, and the grid written is the header and every row in order;   *)
(* the only other call on the sink is the one write with which a run that   *)
(* creates the weekly sheet seeds it from the base, before loading.         *)
(***************************************************************************)
C2_Flush ==
  /\ SeedCalls = 1 => WeeklyTitle(today) \notin DOMAIN store0
  /\ FlushCalls \in { << >>, << "clear" >>, << "clear", "update" >> }
  /\ FlushCalls # << >> => AllRowsHandled
  /\ pc = "done" => FlushCalls = << "clear", "update" >> /\ WrittenIsDataset

\* a completed run that created and seeded the weekly sheet
C2_Witness ==
  /\ pc = "done"
  /\ sinkCalls = << "update", "clear", "update" >>
  /\ \E i \in Rows : outcome[i] = "ok"

(***************************************************************************)
(* C3 as stated: once the dataset is loaded, a reader of the weekly sheet   *)
(* sees either the content it had at the load or the whole new dataset.     *)
(***************************************************************************)
Loaded == pc \notin { "get_weekly_sheet", "load" } /\ weekly_title \in DOMAIN store

NewContent == UpdateSheet(EmptySheet, GridOf(df))

C3_Original == Loaded => store[weekly_title] \in { sheet0, NewContent }

(***************************************************************************)
(* C3 amended: once the dataset is loaded, a reader of the weekly sheet     *)
(* sees the content it had at the load, or the whole new dataset (only in a *)
(* completed run), or an empty sheet: from the clear until the write has    *)
(* gone through, and for good when the write faults.  Never a part of the   *)
(* dataset.                                                                 *)
(***************************************************************************)
C3_NoPartial ==
  Loaded =>
    /\ store[weekly_title] \in { sheet0, EmptySheet, NewContent }
    /\ pc = "done" => store[weekly_title] = NewContent
    /\ pc = "update" \/ (pc = "aborted" /\ FlushCalls = << "clear", "update" >>)
         => store[weekly_title] = EmptySheet
    /\ FlushCalls = << >> => store[weekly_title] = sheet0

\* the write faulted after the clear: the run is over and the sheet, which
\* had content, is empty
C3_Witness ==
  /\ pc = "aborted"
  /\ FlushCalls = << "clear", "update" >>
  /\ sheet0 # EmptySheet
  /\ store[weekly_title] = EmptySheet

(***************************************************************************)
(* C4 as stated: after a completed run every row, without exception, has a  *)
(* stamp of this run in LastUpdated and in every metric column a value this *)
(* run has assigned.                                                        *)
(***************************************************************************)
\* the row has a stamp of this run, and in every metric column the sentinel
\* or what get_metric_value was called for in this run
RowWritten(i) ==
  /\ df.rows[i]["LastUpdated"] # Empty
  /\ df.rows[i]["LastUpdated"] \in RunStamps
  /\ \/ outcome[i] = "failed" /\ AllSentinel(i)
     \/ outcome[i] = "ok" /\ \A m \in Metrics : << i, metric_locators[m] >> \in extracted

C4_Original == pc = "done" => \A i \in Rows : RowWritten(i)

(***************************************************************************)
(* C4 amended: after a completed run every row whose Symbol is not empty    *)
(* (after trimming) has a stamp of this run in LastUpdated and in every     *)
(* metric column a value this run has assigned.                             *)
(***************************************************************************)
C4_EveryRowWritten ==
  pc = "done" => \A i \in Rows : SymbolAt(df, i) # << >> => RowWritten(i)

\* a completed run with a scraped row, an unavailable row
C4_Witness ==
  /\ pc = "done"
  /\ \E i \in Rows : outcome[i] = "ok" /\ RowWritten(i)
  /\ \E i \in Rows : outcome[i] = "failed" /\ RowWritten(i)

(***************************************************************************)
(* C5: once the browser and its context exist they are in use only while    *)
(* open, and on every way out of the try block (the loop ran to its end,    *)
(* the login raised, the loop was interrupted) context.close() and then     *)
(* browser.close() are called before the run goes on or ends; at the end    *)
(* of the run neither is open.  No page is driven after the release.        *)
(***************************************************************************)
\* main() is inside the try block
InTry == pc \in DriverPcs \cup { "login", "row", "stamp", "mark", "pace" }

\* the try block and its finally clause are behind
AfterFinally ==
  \/ pc \in { "playwright_stop", "clear", "update", "done" }
  \/ pc = "aborted" /\ exc # "WorksheetNotFound"

C5_Released ==
  /\ InTry => browserOpen /\ contextOpen /\ closeCalls = << >>
  /\ AfterFinally =>
       /\ closeCalls # << >> /\ Head(closeCalls) = "context"
       /\ exc # "close" => closeCalls = << "context", "browser" >>
  /\ Ended => ~browserOpen /\ ~contextOpen

\* the loop was interrupted after a navigation: both were closed, and the run
\* ended
C5_Witness ==
  /\ pc = "aborted"
  /\ exc = "KeyboardInterrupt"
  /\ navigated
  /\ closeCalls = << "context", "browser" >>

(***************************************************************************)
(* C6 as stated: when the credentials are missing or the base sheet is      *)
(* missing, no symbol is navigated to and the flush is not reached.         *)
(***************************************************************************)
FlushReached == pc \in { "clear", "update", "done" } \/ FlushCalls # << >>

C6_Original ==
  (~credsSet \/ BASE_SHEET_NAME \notin DOMAIN store0) => ~navigated /\ ~FlushReached

(***************************************************************************)
(* C6 amended: when the credentials are missing and no saved cookies are    *)
(* loaded (the login is needed), or the base sheet is missing and the       *)
(* weekly sheet is absent or has no records (the base sheet is needed), the *)
(* run aborts before any symbol is navigated to and does not reach the      *)
(* flush.                                                                   *)
(***************************************************************************)
\* load_cookies has not returned True (it is False until the call)
LoginNeeded == ~cookies_loaded

BaseNeeded ==
  \/ WeeklyTitle(today) \notin DOMAIN store0
  \/ get_all_records(store0[WeeklyTitle(today)]) = << >>

C6_ConfigFaultAborts ==
  (\/ ~credsSet /\ LoginNeeded
   \/ BASE_SHEET_NAME \notin DOMAIN store0 /\ BaseNeeded)
    => /\ ~navigated
       /\ ~FlushReached
       /\ pc \notin DriverPcs

\* the login was needed and the credentials were missing: the run is over,
\* the session was released, nothing was navigated to
C6_Witness ==
  /\ pc = "aborted"
  /\ exc = "RuntimeError"
  /\ ~credsSet
  /\ LoginNeeded
  /\ ~navigated
  /\ sinkCalls = << >>

(***************************************************************************)
(* C7: a fault of the driver while a symbol is navigated to or a metric is  *)
(* queried never propagates: after it the run is still in the loop; a run   *)
(* aborts only on a missing sheet, a failed login, an interrupt, a failing  *)
(* close or a failing sink; the rows with a symbol are processed in the     *)
(* order of the dataset, all of them before the flush, and a row whose      *)
(* navigation ran out of attempts holds the sentinel.                       *)
(***************************************************************************)
FatalCauses ==
  { "WorksheetNotFound", "RuntimeError", "login", "KeyboardInterrupt", "close", "sink" }

NonBlank(i) == SymbolAt(df, i) # << >>

\* the rows with a symbol before row k, in order
NonBlankBefore(k) == SelectSeq([i \in 1..(k - 1) |-> i], NonBlank)

C7_TransientNeverAborts ==
  /\ (faulted > 0 \/ lastQuery = "fault") =>
       exc = "none" /\ pc \in DriverPcs \cup { "stamp", "mark" }
  /\ pc = "aborted" => exc \in FatalCauses
  /\ pc \notin { "get_weekly_sheet", "load" } => processed = NonBlankBefore(index)
  /\ FlushReached =>
       /\ index > Len(df.rows)
       /\ \A i \in Rows : NonBlank(i) => outcome[i] \in { "ok", "failed" }
       /\ \A i \in Rows : outcome[i] = "failed" => AllSentinel(i)

\* a completed run in which one row ran out of attempts and in another a
\* query came back with nothing
C7_Witness ==
  /\ pc = "done"
  /\ \E i \in Rows : outcome[i] = "failed"
  /\ \E i \in Rows : outcome[i] = "ok" /\ \E m \in Metrics : Cell(i, m) = None

(***************************************************************************)
(* C8: when scrape_with_retry returns False for a row, get_metric_value is  *)
(* not called for the row, every metric column of the row becomes the       *)
(* sentinel and LastUpdated a stamp of this run; a processed row holds the  *)
(* sentinel in all its metric columns or in none.                           *)
(***************************************************************************)
C8_FailurePath ==
  /\ result = "false" =>
       pc = "mark" /\ \A m \in Metrics : << index, metric_locators[m] >> \notin extracted
  /\ \A i \in Rows :
       outcome[i] = "failed" =>
         /\ \A m \in Metrics : << i, metric_locators[m] >> \notin extracted
         /\ AllSentinel(i)
         /\ df.rows[i]["LastUpdated"] # Empty
         /\ df.rows[i]["LastUpdated"] \in RunStamps
  /\ \A i \in Rows : outcome[i] = "ok" => NoSentinel(i)

\* a row was marked unavailable, and the run went on to the next row
C8_Witness ==
  /\ pc = "row"
  /\ \E i \in Rows : outcome[i] = "failed" /\ AllSentinel(i)

(***************************************************************************)
(* C9: when scrape_with_retry returns True for a row, every metric column   *)
(* of the row is overwritten: with the number when the text has one, else   *)
(* with the trimmed text, and with None when the element is absent or       *)
(* hidden or the query faults; the flush leaves a None cell empty.          *)
(***************************************************************************)
\* what the texts of TextPool are to be stored as
ExpectedPool ==
  << Num(152, 1),
     Str(<< "N", "/", "A" >>),
     Num(12345, 1),
     Empty,
     Num(450, 0),
     Num(0 - 5, 1),
     Str(<< "1", "2", "%", " ", "p", "a" >>) >>

Expected(i, m) == ExpectedPool[PoolIndex(i, m)]

\* the metric the last get_metric_value of the row was for
LastMetric == IF pc = "stamp" THEN metric ELSE metric - 1

C9_SuccessOverwrites ==
  /\ \A i \in Rows :
       outcome[i] = "ok" => \A m \in Metrics : Cell(i, m) \in { None, Expected(i, m) }
  /\ (pc \in { "extract", "stamp" } /\ lastQuery # "none") =>
       Cell(index, LastMetric) =
         IF lastQuery = "text" THEN Expected(index, LastMetric) ELSE None
  /\ pc = "done" =>
       \A i \in Rows : \A m \in Metrics :
         (outcome[i] = "ok" /\ Cell(i, m) = None) =>
           store[weekly_title].rows[i][Position(df.cols, metric_locators[m])] = Empty

\* a scraped row whose first metric had a value before the run and has none
\* now, and whose second metric has the value of the page
C9_Witness ==
  /\ pc = "done"
  /\ \E i \in Rows :
       /\ outcome[i] = "ok"
       /\ df0.rows[i][metric_locators[1]] = Num(7, 0)
       /\ Cell(i, 1) = None
       /\ Cell(i, 2) = Expected(i, 2)

(***************************************************************************)
(* C10: a step changes the DataFrame only in the row the loop is at, and    *)
(* there only in the metric columns and LastUpdated: the columns stay, the  *)
(* other rows stay, and Stock Name, Symbol, Quantity and the other columns  *)
(* of the row stay; so the cells the flush writes for those columns and for *)
(* the skipped rows are the loaded ones.                                    *)
(***************************************************************************)
NonMetricCols ==
  { df0.cols[j] : j \in 1..Len(df0.cols) } \ (MetricSet \cup { "LastUpdated" })

FrameStep ==
  /\ pc # "load" =>
       /\ df'.cols = df.cols
       /\ Len(df'.rows) = Len(df.rows)
       /\ \A i \in Rows :
            /\ df'.rows[i] # df.rows[i] => i = index /\ pc \in { "extract", "stamp", "mark" }
            /\ \A c \in NonMetricCols : df'.rows[i][c] = df.rows[i][c]
  /\ pc' = "done" =>
       \A i \in 1..Len(df0.rows) :
         /\ \A c \in NonMetricCols :
              store'[weekly_title].rows[i][Position(df0.cols, c)] = df0.rows[i][c]
         /\ outcome[i] = "skipped" => store'[weekly_title].rows[i] = GridOf(df0).rows[i]

C10_Frame == [][FrameStep]_vars

\* the flush of a run with a scraped row and an unavailable row kept the
\* loaded Quantity of both
C10_Witness ==
  /\ pc = "done"
  /\ \E i \in Rows : outcome[i] = "ok" /\ df.rows[i]["Quantity"] = Num(10 * i, 0)
  /\ \E i \in Rows : outcome[i] = "failed" /\ df.rows[i]["Quantity"] = Num(10 * i, 0)
  /\ GridOf(df).rows = store[weekly_title].rows

(***************************************************************************)
(* C11: a row whose Symbol is empty after trimming is skipped, not erased:  *)
(* the loop passes it without a navigation, a query or a pacing sleep (the  *)
(* driver is in use only for a row with a symbol, the clock has advanced    *)
(* by the delay of the paced rows only), its cells are the loaded ones all  *)
(* through the run, and the flush writes it at its position with those      *)
(* cells.                                                                   *)
(***************************************************************************)
C11_SkippedNotErased ==
  /\ pc \in DriverPcs \cup { "stamp", "mark", "pace" } => NonBlank(index)
  /\ clock = DELAY_BETWEEN_STOCKS * Len(processed)
  /\ \A i \in Rows :
       /\ outcome[i] = "skipped" <=> (~NonBlank(i) /\ i < index)
       /\ ~NonBlank(i) =>
            /\ df.rows[i] = df0.rows[i]
            /\ \A m \in Metrics : << i, metric_locators[m] >> \notin extracted
            /\ ~InSeq(processed, i)
            /\ pc = "done" =>
                 /\ Len(store[weekly_title].rows) = Len(df0.rows)
                 /\ store[weekly_title].rows[i] = GridOf(df0).rows[i]

\* a completed run that scraped one row and skipped another, which holds in
\* the written sheet the values and the stamp of the earlier run
C11_Witness ==
  /\ pc = "done"
  /\ \E i \in Rows : outcome[i] = "ok"
  /\ \E i \in Rows :
       /\ outcome[i] = "skipped"
       /\ store[weekly_title].rows[i][Position(df.cols, metric_locators[1])] = Num(7, 0)
       /\ store[weekly_title].rows[i][Position(df.cols, "LastUpdated")] = OldStamp

(***************************************************************************)
(* C12: the pacing sleep follows each row with a symbol exactly once,       *)
(* whether scrape_with_retry returned True or False for it: when the loop   *)
(* is at the next row or navigating for it, and when the flush is reached,  *)
(* every row that was scraped or marked unavailable has been paced once,    *)
(* and the clock has advanced by one delay per such row; no row is paced    *)
(* twice, and none before it was scraped or marked.                         *)
(***************************************************************************)
\* how many pacing sleeps followed row i
PacedTimes(i) == Cardinality({ j \in 1..Len(processed) : processed[j] = i })

Handled(i) == outcome[i] \in { "ok", "failed" }

C12_PacedOnce ==
  /\ clock = DELAY_BETWEEN_STOCKS * Len(processed)
  /\ \A i \in Rows :
       /\ PacedTimes(i) <= 1
       /\ PacedTimes(i) = 1 => Handled(i)
       /\ (NonBlank(i) /\ i < index) => Handled(i)
  /\ pc = "pace" => Handled(index) /\ PacedTimes(index) = 0
  /\ (pc \in DriverPcs \cup { "row" } \/ FlushReached) =>
       \A i \in Rows : Handled(i) => PacedTimes(i) = 1

\* the second row is being navigated to after an unavailable first row, which
\* was paced once
C12_Witness ==
  /\ pc = "goto"
  /\ index = 2
  /\ outcome[1] = "failed"
  /\ processed = << 1 >>
  /\ clock = DELAY_BETWEEN_STOCKS

(***************************************************************************)
(* C13 as stated: an attempt of scrape_with_retry can fault at the          *)
(* navigation, the wait for the search input, the fill, the Enter key or    *)
(* the wait for the result; the fault ends the attempt at the operation     *)
(* that raised and is followed by a backoff sleep, every time; when an      *)
(* attempt is left, it begins at the navigation.                            *)
(***************************************************************************)
\* the driver operations and sleeps of an attempt that goes through
AttemptOrder == << "goto", "wait_search", "sleep1", "fill", "sleep2", "press", "wait_result" >>

FaultPoints == { "goto", "wait_search", "fill", "press", "wait_result" }

OriginalFaultStep ==
  faulted' = faulted + 1 =>
    /\ pc \in FaultPoints
    /\ ops' = SubSeq(AttemptOrder, 1, Len(ops'))
    /\ ops'[Len(ops')] = pc
    /\ backoffs' = backoffs + 1
    /\ attempt < retry => attempt' = attempt + 1 /\ pc' = "goto"

C13_Original == [][OriginalFaultStep]_vars

(***************************************************************************)
(* C13 amended: an attempt can fault at the navigation, the wait for the    *)
(* search input, the fill, the Enter key or the wait for the result; the    *)
(* fault ends the attempt at the operation that raised; while an attempt is *)
(* left (attempt < retry) the backoff sleep follows and the next attempt    *)
(* begins at the navigation; the fault of the last attempt is followed by   *)
(* no sleep: scrape_with_retry returns False at once.                       *)
(***************************************************************************)
FaultStep ==
  /\ attempt > 0 => backoffs = faulted - (IF result = "false" THEN 1 ELSE 0)
  /\ faulted' = faulted + 1 =>
       /\ pc \in FaultPoints
       /\ ops' = SubSeq(AttemptOrder, 1, Len(ops'))
       /\ ops'[Len(ops')] = pc
       /\ IF attempt < retry
          THEN /\ backoffs' = backoffs + 1
               /\ attempt' = attempt + 1
               /\ pc' = "goto"
               /\ result' = "none"
          ELSE /\ backoffs' = backoffs
               /\ result' = "false"
               /\ pc' = "mark"
  /\ (pc = "goto" /\ attempt > 1) => faulted = attempt - 1 /\ ops # << >>
  /\ (pc = "goto" /\ pc' # "mark" /\ pc' # "goto") => ops' = << "goto" >>

C13_FaultEndsAttempt == [][FaultStep]_vars

\* the third attempt faulted at the wait for the result: two backoff sleeps,
\* and False
C13_Witness ==
  /\ result = "false"
  /\ faulted = retry
  /\ backoffs = retry - 1
  /\ ops = AttemptOrder

(***************************************************************************)
(* C14: over the runs that follow one another on the same spreadsheet, the  *)
(* weekly sheet of a week is created at most once: once get_weekly_sheet    *)
(* has returned a title for a date, the sheet of that title stays, every    *)
(* later run of the week finds it (no add_worksheet, no copy of the base    *)
(* sheet) and returns the same title, which is the ISO year, "-W" and the   *)
(* ISO week in two digits.                                                  *)
(***************************************************************************)
Calls == 1..Len(weekly_calls)

\* the titles of the weeks of RunDates, as written out
TitleOf(date) ==
  IF date.week = 7 THEN << "2", "0", "2", "5", "-", "W", "0", "7" >>
  ELSE << "2", "0", "2", "5", "-", "W", "1", "2" >>

\* get_weekly_sheet of the run that is under way has returned
Returned == pc \notin { "get_weekly_sheet" } /\ weekly_calls # << >>

C14_CreatedOncePerWeek ==
  /\ \A j \in Calls :
       LET c == weekly_calls[j]
       IN  /\ c.created => c.title # << >>
           /\ c.title # << >> => c.title = TitleOf(c.date) /\ c.title \in DOMAIN store
  /\ \A j \in Calls : \A k \in Calls :
       (j < k /\ weekly_calls[j].date = weekly_calls[k].date) =>
         /\ ~(weekly_calls[j].created /\ weekly_calls[k].created)
         /\ weekly_calls[j].title # << >> =>
              /\ weekly_calls[k].title = weekly_calls[j].title
              /\ ~weekly_calls[k].created
  /\ (Returned /\ ~weekly_calls[Len(weekly_calls)].created) =>
       created = << 0, 0 >> /\ SeedCalls = 0

\* the first run of the week created the sheet; the second run of the week
\* has found it, and is completed
C14_Witness ==
  /\ pc = "done"
  /\ Len(weekly_calls) = 2
  /\ weekly_calls[1].date = weekly_calls[2].date
  /\ weekly_calls[1].created
  /\ ~weekly_calls[2].created
  /\ weekly_calls[2].title = weekly_calls[1].title
  /\ created = << 0, 0 >>

(***************************************************************************)
(* C15: when the weekly sheet does not exist, get_weekly_sheet creates it   *)
(* with max(rows of the base sheet, 100) rows and max(columns of the base   *)
(* sheet, 10) columns; until the flush its content is the content of the    *)
(* base sheet, header and rows, cell for cell from the first cell (one      *)
(* write), and it is empty, with no write, when the base sheet is empty;    *)
(* the base sheet is as the run found it, all through the run.              *)
(***************************************************************************)
\* add_worksheet has been called in this run
Created == created # << 0, 0 >>

C15_SeededFromBase ==
  /\ BASE_SHEET_NAME \in DOMAIN store <=> BASE_SHEET_NAME \in DOMAIN store0
  /\ BASE_SHEET_NAME \in DOMAIN store => store[BASE_SHEET_NAME] = store0[BASE_SHEET_NAME]
  /\ Created <=>
       /\ pc # "get_weekly_sheet"
       /\ WeeklyTitle(today) \notin DOMAIN store0
       /\ BASE_SHEET_NAME \in DOMAIN store0
  /\ Created =>
       LET base == store0[BASE_SHEET_NAME]
           title == WeeklyTitle(today)
       IN  /\ created[1] = Max(IF base = EmptySheet THEN 0 ELSE Len(base.rows) + 1, 100)
           /\ created[2] = Max(Len(base.header), 10)
           /\ title \in DOMAIN store
           /\ SeedCalls = IF base = EmptySheet THEN 0 ELSE 1
           /\ FlushCalls = << >> =>
                /\ store[title].header = base.header
                /\ Len(store[title].rows) = Len(base.rows)
                /\ \A i \in 1..Len(base.rows) : store[title].rows[i] = base.rows[i]

\* a weekly sheet created from a base sheet of 101 rows holds them all
C15_Witness ==
  /\ pc = "load"
  /\ created = << 101, 10 >>
  /\ Len(store[BASE_SHEET_NAME].rows) = 100
  /\ store[WeeklyTitle(today)] = store[BASE_SHEET_NAME]

(***************************************************************************)
(* C16: the DataFrame load_weekly_dataframe returns has the records of the  *)
(* weekly sheet, or of the base sheet when the weekly sheet has none, one   *)
(* row per record in their order; every row has Stock Name, Symbol,         *)
(* Quantity, every metric column and LastUpdated; the columns of the        *)
(* records are all there, in their order and with their cells as read, and  *)
(* the columns added are required ones, empty in every row.                 *)
(***************************************************************************)
\* load_weekly_dataframe has returned
DatasetLoaded == pc \notin { "get_weekly_sheet", "load" } /\ exc # "WorksheetNotFound"

\* the sheet the records were read from
RecordSource == IF sheet0.rows # << >> THEN sheet0 ELSE store0[BASE_SHEET_NAME]

RequiredColumns == { "Stock Name", "Symbol", "Quantity", "LastUpdated" } \cup MetricSet

C16_ColumnsCompleted ==
  DatasetLoaded =>
    LET src == RecordSource
        had == IF src.rows = << >> THEN << >> ELSE src.header
    IN  /\ Len(df0.rows) = Len(src.rows)
        /\ \A c \in RequiredColumns : InSeq(df0.cols, c)
        /\ \A j \in 1..Len(df0.cols) : \A k \in 1..Len(df0.cols) :
             df0.cols[j] = df0.cols[k] => j = k
        /\ SubSeq(df0.cols, 1, Len(had)) = had
        /\ \A j \in (Len(had) + 1)..Len(df0.cols) : df0.cols[j] \in RequiredColumns
        /\ \A i \in 1..Len(df0.rows) :
             /\ DOMAIN df0.rows[i] = { df0.cols[j] : j \in 1..Len(df0.cols) }
             /\ \A j \in 1..Len(had) : df0.rows[i][had[j]] = src.rows[i][j]
             /\ \A j \in (Len(had) + 1)..Len(df0.cols) : df0.rows[i][df0.cols[j]] = Empty

\* the records of a sheet without Stock Name and Quantity are loaded: both
\* are added, empty, and Symbol and Notes are as read
C16_Witness ==
  /\ pc = "launch"
  /\ sheet0.header = << "Symbol", "Notes" >>
  /\ Len(df0.rows) = NumRows
  /\ df0.rows[1]["Quantity"] = Empty
  /\ df0.rows[1]["Stock Name"] = Empty
  /\ df0.rows[1]["Symbol"] = Str(SymbolOf(1))
  /\ df0.rows[1]["Notes"] # Empty

(***************************************************************************)
(* C17: a driver fault in get_metric_value stays with its metric: the       *)
(* metric is stored as None, as for an element that is absent or hidden,    *)
(* no exception leaves the loop, and the loop goes on: whichever metrics    *)
(* faulted, when the row is stamped every metric has been queried, the      *)
(* faulted ones are None and the others are None or what the page shows.    *)
(***************************************************************************)
\* the metrics of the row get_metric_value has been called for
Queried == { m \in Metrics : << index, metric_locators[m] >> \in extracted }

C17_QueryFaultIsolated ==
  /\ queryFaults # {} => pc \in { "extract", "stamp" } /\ exc = "none"
  /\ pc \in { "extract", "stamp" } =>
       /\ Queried = 1..LastMetric
       /\ \A m \in Queried :
            /\ metric_locators[m] \in queryFaults =>
                 Cell(index, m) = get_metric_value("hidden", PageText(index, m))
            /\ metric_locators[m] \notin queryFaults =>
                 Cell(index, m) \in { None, Expected(index, m) }
  /\ pc = "stamp" => Queried = Metrics

\* the query of the first metric faulted; the others were queried, and the
\* last one has the value of the page
C17_Witness ==
  /\ pc = "stamp"
  /\ queryFaults = { metric_locators[1] }
  /\ Cell(index, 1) = None
  /\ Queried = Metrics
  /\ Cell(index, Len(metric_locators)) = Expected(index, Len(metric_locators))
  /\ Expected(index, Len(metric_locators)) # None

(***************************************************************************)
(* C18: when an exception leaves the try block or its finally clause (the   *)
(* login raised, the loop was interrupted, a close() raised), main() ends   *)
(* before the flush: from the load of the dataset to the end of the run     *)
(* neither weekly_ws.clear() nor weekly_ws.update() is called, and the      *)
(* weekly sheet holds what it held when the dataset was loaded.  (The one   *)
(* write with which get_weekly_sheet seeds a new sheet is before the load.) *)
(***************************************************************************)
\* the exceptions that leave the with block
UncaughtInSession == { "RuntimeError", "login", "KeyboardInterrupt", "close" }

AttemptPcs == << "goto", "wait_search", "settle1", "fill", "settle2", "press", "wait_result" >>

OrderStep ==
  /\ \A k \in 2..Len(AttemptPcs) :
       pc = AttemptPcs[k] => ops = SubSeq(AttemptOrder, 1, k - 1)
  /\ pc = "goto" => attempt = faulted + 1 /\ navCalls = faulted
  /\ \A k \in 1..Len(AttemptPcs) :
       (pc = AttemptPcs[k] /\ faulted' = faulted) =>
         /\ ops' = SubSeq(AttemptOrder, 1, k)
         /\ attempt' = attempt
         /\ k < Len(AttemptPcs) => pc' = AttemptPcs[k + 1] /\ result' = "none"
  /\ (result' = "true" /\ result # "true") =>
       pc = "wait_result" /\ faulted' = faulted /\ ops' = AttemptOrder /\ pc' = "extract"
  /\ pc = "row" => attempt = 0 /\ navCalls = 0 /\ faulted = 0 /\ ops = << >> /\ result = "none"
  /\ (pc = "row" /\ pc' = "goto") =>
       attempt' = 1 /\ navCalls' = 0 /\ faulted' = 0 /\ backoffs' = 0 /\ ops' = << >>

C19_FixedOrder == [][OrderStep]_vars

\* the second row was navigated to at its first attempt, after a first row
\* that took all its attempts
C19_Witness ==
  /\ index = 2
  /\ outcome[1] = "failed"
  /\ result = "true"
  /\ attempt = 1
  /\ navCalls = 1
  /\ ops = AttemptOrder

(***************************************************************************)
(* C20: every run ends.  scrape_with_retry makes at most retry attempts and *)
(* every call of it returns, True or False; and main() reaches the end of   *)
(* the flush, or ends with an exception.                                    *)
(***************************************************************************)
InAttempt == pc \in { AttemptPcs[k] : k \in 1..Len(AttemptPcs) }

Returns == result \in { "true", "false" }

C20_Terminates ==
  /\ [](attempt <= retry /\ navCalls <= retry /\ faulted <= retry)
  /\ InAttempt ~> Returns
  /\ <>Ended

\* the longest run: every row has a symbol and takes all its attempts, and
\* the sheet is written
C20_Witness ==
  /\ pc = "done"
  /\ Len(df.rows) = NumRows
  /\ processed = [i \in 1..NumRows |-> i]
  /\ \A i \in Rows : outcome[i] = "failed"

=============================================================================
